---------------------------- MODULE Spec2Model ----------------------------
(***************************************************************************)
(* A model of src/src/React/LetterGlitch.tsx (the NucleotideGlitch         *)
(* component): the cell store, the mutator, the colour transitioner, the   *)
(* frame driver and the effect that mounts, debounces resizes and tears    *)
(* the loop down.                                                          *)
(*                                                                         *)
(* Strings are sequences of one-character strings, so that hexToRgb and    *)
(* the `rgb(r, g, b)` text interpolateColor produces are what the code     *)
(* makes of them.  Numbers that the code keeps as IEEE doubles             *)
(* (colorProgress, the factor of the interpolation, length * 0.05) are     *)
(* kept exactly: a non-negative double below 2^9 with no bit under 2^-57   *)
(* is the integer value * 2^57 written in three limbs of 22 bits,          *)
(* <<l2, l1, l0>>, and every arithmetic result is rounded to 53            *)
(* significant bits, ties to even, as the machine does.                    *)
(***************************************************************************)
EXTENDS Integers, Sequences, FiniteSets, TLC

(***************************************************************************)
(* Doubles                                                                 *)
(***************************************************************************)
LimbBits == 22
LimbBase == 2 ^ 22
FracBits == 57

FlNorm(l2, l1, l0) ==
  LET c0 == l0 \div LimbBase
      m1 == l1 + c0
      c1 == m1 \div LimbBase
  IN  <<l2 + c1, m1 % LimbBase, l0 % LimbBase>>

FlAdd(a, b) == FlNorm(a[1] + b[1], a[2] + b[2], a[3] + b[3])

\* a - b for a >= b
FlSub(a, b) ==
  LET d0 == a[3] - b[3]
      b0 == IF d0 < 0 THEN 1 ELSE 0
      d1 == a[2] - b[2] - b0
      b1 == IF d1 < 0 THEN 1 ELSE 0
  IN  <<a[1] - b[1] - b1, d1 + b1 * LimbBase, d0 + b0 * LimbBase>>

\* the exact product n * a of an integer 0 <= n < 2^9 and a double
FlMulInt(n, a) == FlNorm(n * a[1], n * a[2], n * a[3])

FlLt(a, b) ==
  \/ a[1] < b[1]
  \/ a[1] = b[1] /\ a[2] < b[2]
  \/ a[1] = b[1] /\ a[2] = b[2] /\ a[3] < b[3]

FlFromInt(n) == <<n * 2 ^ (FracBits - 2 * LimbBits), 0, 0>>

\* index of the highest set bit of x > 0
TopBit(x) == CHOOSE k \in 0 .. LimbBits : 2 ^ k <= x /\ x < 2 ^ (k + 1)

FlTopBit(a) ==
  IF a[1] > 0 THEN 2 * LimbBits + TopBit(a[1])
  ELSE IF a[2] > 0 THEN LimbBits + TopBit(a[2])
  ELSE IF a[3] > 0 THEN TopBit(a[3])
  ELSE 0

\* round to nearest, ties to even, at 53 significant bits
FlRound(a) ==
  LET p == FlTopBit(a)
  IN  IF p <= 52 THEN a
      ELSE LET ulp  == 2 ^ (p - 52)
               r    == a[3] % ulp
               q    == a[3] - r
               half == ulp \div 2
               up   == \/ r > half
                       \/ r = half /\ (q \div ulp) % 2 = 1
           IN  FlNorm(a[1], a[2], IF up THEN q + ulp ELSE q)

\* Math.floor of a double
FlFloor(a) == a[1] \div 2 ^ (FracBits - 2 * LimbBits)

\* Math.round of a non-negative double: floor(x + 0.5), computed exactly
MathRound(a) ==
  FlFloor(FlNorm(a[1] + 2 ^ (FracBits - 1 - 2 * LimbBits), a[2], a[3]))

\* the double nearest to 0.05, 0x1.999999999999ap-5
ColorStep == <<409, 2516582, 1677722>>
UpdateFraction == <<409, 2516582, 1677722>>
FlZero == FlFromInt(0)
FlOne == FlFromInt(1)

(***************************************************************************)
(* Strings                                                                 *)
(***************************************************************************)
DecDigits == <<"0", "1", "2", "3", "4", "5", "6", "7", "8", "9">>
HexLower == <<"a", "b", "c", "d", "e", "f">>
HexUpper == <<"A", "B", "C", "D", "E", "F">>

\* [a-f\d] under the i flag
IsHexDigit(c) ==
  \/ \E i \in 1 .. 10 : DecDigits[i] = c
  \/ \E i \in 1 .. 6 : HexLower[i] = c \/ HexUpper[i] = c

\* parseInt(c, 16) of one hex digit
HexValue(c) ==
  IF \E i \in 1 .. 10 : DecDigits[i] = c
  THEN (CHOOSE i \in 1 .. 10 : DecDigits[i] = c) - 1
  ELSE (CHOOSE i \in 1 .. 6 : HexLower[i] = c \/ HexUpper[i] = c) + 9

\* the text after the optional leading # of both patterns
StripHash(s) == IF Len(s) > 0 /\ s[1] = "#" THEN Tail(s) ELSE s

AllHex(s) == \A i \in 1 .. Len(s) : IsHexDigit(s[i])

\* String(n) for an integer n >= 0
RECURSIVE NumberToString(_)
NumberToString(n) ==
  IF n < 10 THEN <<DecDigits[n + 1]>>
  ELSE Append(NumberToString(n \div 10), DecDigits[(n % 10) + 1])

\* the null hexToRgb returns, as a value no parsed colour equals
Null == [r |-> -1, g |-> -1, b |-> -1]

hexToRgb(hex) ==
  LET s == StripHash(hex)
      expanded == IF Len(s) = 3 /\ AllHex(s)
                  THEN <<s[1], s[1], s[2], s[2], s[3], s[3]>>
                  ELSE hex
      t == StripHash(expanded)
  IN  IF Len(t) = 6 /\ AllHex(t)
      THEN [r |-> 16 * HexValue(t[1]) + HexValue(t[2]),
            g |-> 16 * HexValue(t[3]) + HexValue(t[4]),
            b |-> 16 * HexValue(t[5]) + HexValue(t[6])]
      ELSE Null

\* start + (end - start) * factor, then Math.round, for one channel
interpolateChannel(start, end, factor) ==
  IF end >= start
  THEN MathRound(FlRound(FlAdd(FlFromInt(start),
                               FlRound(FlMulInt(end - start, factor)))))
  ELSE MathRound(FlRound(FlSub(FlFromInt(start),
                               FlRound(FlMulInt(start - end, factor)))))

\* interpolateColor returning #rrggbb text, which hexToRgb parses
interpolateColorAsHex(start, end, factor) ==
  LET digit(n) == IF n < 10 THEN DecDigits[n + 1] ELSE HexLower[n - 9]
      byte(n) == <<digit(n \div 16), digit(n % 16)>>
  IN  <<"#">>
        \o byte(interpolateChannel(start.r, end.r, factor))
        \o byte(interpolateChannel(start.g, end.g, factor))
        \o byte(interpolateChannel(start.b, end.b, factor))

interpolateColor(start, end, factor) ==
  <<"r", "g", "b", "(">>
    \o NumberToString(interpolateChannel(start.r, end.r, factor))
    \o <<",", " ">>
    \o NumberToString(interpolateChannel(start.g, end.g, factor))
    \o <<",", " ">>
    \o NumberToString(interpolateChannel(start.b, end.b, factor))
    \o <<")">>


(***************************************************************************)
(* Bounds and inputs                                                       *)
(***************************************************************************)
\* Math.random() returns one of the values r / RandDen, r in RandomValues
RandDen == 4
\* the clock advances by TimeStep ms at a time, up to MaxTime
TimeStep == 50
MaxTime == 149
\* the effect runs at most MaxEffects times (mount and re-runs)
MaxEffects == 2

RandomValues == {0, 3}
\* the one value of a run whose random source is constant
SteadyRandom == {0}
\* what n calls of Math.random() may return: any values of rv, or, for a
\* store too large to enumerate, the same three values for every cell
RandSeqs(rv, n) == [1 .. n -> rv]
InitSeqs(rv, n, uniform) ==
  IF uniform
  THEN {[i \in 1 .. n |-> r[((i - 1) % 3) + 1]] : r \in [1 .. 3 -> rv]}
  ELSE RandSeqs(rv, n)

\* the values of the glitchSpeed and smooth props
GlitchSpeeds == {50, 100}
PropsSet == [glitchSpeed : GlitchSpeeds, smooth : BOOLEAN]

\* the default of the glitchColors prop
DefaultColors ==
  << <<"#", "5", "e", "4", "4", "9", "1">>,
     <<"#", "A", "4", "7", "6", "F", "F">>,
     <<"#", "2", "4", "1", "a", "3", "8">> >>

(***************************************************************************)
(* Program constants                                                       *)
(***************************************************************************)
charWidth == 10
charHeight == 20
nucleotidesArray == <<"A", "T", "C", "G">>
ResizeDelay == 100

NoTimer == -1
\* no animate ran
NoTick ==
  [gated |-> FALSE, ran |-> FALSE, smooth |-> FALSE, at |-> 0, elapsed |-> 0,
   glitchSpeed |-> 0, draws |-> <<>>, before |-> <<>>, after |-> <<>>,
   trans |-> FALSE, found |-> <<>>, left |-> <<>>]

VARIABLES
  phase,           \* "idle", "mounted" or "unmounted"
  props,           \* glitchSpeed and smooth of the latest render
  glitchColors,    \* the glitchColors prop
  rect,            \* <<width, height>> of the parent's bounding rect
  now,             \* Date.now()
  canvasRef,       \* canvasRef.current is an element
  context,         \* context.current is a drawing context
  animationRef,    \* animationRef.current, 0 for null
  nucleotides,     \* nucleotides.current
  grid,            \* grid.current
  lastGlitchTime,  \* lastGlitchTime.current
  closures,        \* per run of the effect, the glitchSpeed and smooth it closed over
  resizeTimeout,   \* per run of the effect, when its pending timer is due, or NoTimer
  listener,        \* the run whose handleResize is the window's resize listener, or 0
  frames,          \* the pending requestAnimationFrame callbacks, [id, run]
  \* history of the last handler that ran
  threw,           \* it ended in an uncaught TypeError
  log,             \* the calls it made, each with the number of pending frames after it
  tick,            \* what the interval gate and the mutator did in it
  initCells,       \* the cell store as initializeNucleotides left it
  builtRect,       \* the rect of the most recent initializeNucleotides
  transSteps,      \* per cell, transitioner steps since its last smooth mutation, or -1
  lastResize       \* when handleResize last ran, or NoTimer

vars ==
  <<phase, props, glitchColors, rect, now, canvasRef, context, animationRef,
    nucleotides, grid, lastGlitchTime, closures, resizeTimeout, listener,
    frames, threw, log, tick, initCells, builtRect, transSteps, lastResize>>

(***************************************************************************)
(* The component's functions, on the record of what they read and write    *)
(***************************************************************************)
Heap ==
  [canvasRef |-> canvasRef, context |-> context, animationRef |-> animationRef,
   nucleotides |-> nucleotides, grid |-> grid,
   lastGlitchTime |-> lastGlitchTime, frames |-> frames,
   threw |-> FALSE, log |-> <<>>, tick |-> NoTick, initCells |-> <<>>,
   builtRect |-> builtRect, transSteps |-> transSteps]

\* A function of the component is the set of what its body yields for the
\* one value of the state it is called on, so that a statement reads the
\* state the statement before it left: CHOOSE r \in {body : s \in {st}} : TRUE.
Logged(st, op) ==
  CHOOSE r \in
    {[s EXCEPT !.log = Append(@, [op |-> op, pending |-> Cardinality(s.frames)])] :
       s \in {st}} : TRUE

\* Math.floor(Math.random() * n) for Math.random() = r / RandDen
RandomIndex(r, n) == (r * n) \div RandDen

\* getRandomChar over the first four letters of the alphabet
getRandomCharLatin(r) == <<"A", "B", "C", "D">>[RandomIndex(r, 4) + 1]

getRandomChar(r) == nucleotidesArray[RandomIndex(r, Len(nucleotidesArray)) + 1]

getRandomColor(colors, r) == colors[RandomIndex(r, Len(colors)) + 1]

CeilDiv(a, b) == (a + b - 1) \div b

\* calculateGrid with Math.floor for Math.ceil
calculateGridFloors(width, height) ==
  [columns |-> width \div charWidth, rows |-> height \div charHeight]

calculateGrid(width, height) ==
  [columns |-> CeilDiv(width, charWidth), rows |-> CeilDiv(height, charHeight)]

initializeNucleotides(st, colors, columns, rows, rnd) ==
  LET totalNucleotides == columns * rows
  IN  CHOOSE r \in
        {Logged([st EXCEPT !.grid = [columns |-> columns, rows |-> rows],
                           !.nucleotides = cells,
                           !.initCells = cells,
                           !.transSteps = [i \in 1 .. totalNucleotides |-> -1]],
                "initializeNucleotides") :
           cells \in {[i \in 1 .. totalNucleotides |->
                         [char |-> getRandomChar(rnd[3 * i - 2]),
                          color |-> getRandomColor(colors, rnd[3 * i - 1]),
                          targetColor |-> getRandomColor(colors, rnd[3 * i]),
                          colorProgress |-> FlOne]]}} : TRUE

\* drawNucleotides without its test for an empty store
drawNucleotidesDrawsEmpty(st) ==
  CHOOSE r \in
    {IF s.threw \/ ~s.context THEN s
     ELSE IF ~s.canvasRef THEN [s EXCEPT !.threw = TRUE]
     ELSE Logged(s, "drawNucleotides") : s \in {st}} : TRUE

drawNucleotides(st) ==
  CHOOSE r \in
    {IF s.threw \/ ~s.context \/ Len(s.nucleotides) = 0 THEN s
     ELSE IF ~s.canvasRef THEN [s EXCEPT !.threw = TRUE]
     ELSE Logged(s, "drawNucleotides") : s \in {st}} : TRUE

resizeCanvas(st, colors, size, rnd) ==
  CHOOSE r \in
    {IF ~s.canvasRef THEN s
     ELSE drawNucleotides(
            initializeNucleotides([s EXCEPT !.builtRect = size], colors,
                                  calculateGrid(size[1], size[2]).columns,
                                  calculateGrid(size[1], size[2]).rows, rnd)) :
       s \in {st}} : TRUE

Max(a, b) == IF a >= b THEN a ELSE b

\* updateCountOf with 0.01 for 0.05
updateCountOfHundredth(length) == Max(1, length \div 100)

\* Math.max(1, Math.floor(length * 0.05))
updateCountOf(length) ==
  Max(1, FlFloor(FlRound(FlMulInt(length, UpdateFraction))))

\* how many Math.random() calls updateNucleotides makes on a store of this length
UpdateRandoms(length) == IF length = 0 THEN 0 ELSE 3 * updateCountOf(length)

\* updateOne without its smooth test: every mutation starts a transition
updateOneAlwaysSmooth(acc, smooth, colors, rIndex, rChar, rColor) ==
  CHOOSE r \in
    {[cells |-> [a.cells EXCEPT ![RandomIndex(rIndex, Len(a.cells)) + 1] =
                   [char |-> getRandomChar(rChar),
                    color |-> @.color,
                    targetColor |-> getRandomColor(colors, rColor),
                    colorProgress |-> FlZero]],
      trans |-> [a.trans EXCEPT ![RandomIndex(rIndex, Len(a.cells)) + 1] =
                   IF smooth THEN 0 ELSE -1],
      draws |-> Append(a.draws, RandomIndex(rIndex, Len(a.cells)) + 1)] :
       a \in {acc}} : TRUE

\* one iteration of the loop of updateNucleotides
updateOne(acc, smooth, colors, rIndex, rChar, rColor) ==
  LET target == getRandomColor(colors, rColor)
  IN  CHOOSE r \in
        {LET index == RandomIndex(rIndex, Len(a.cells)) + 1
         IN  IF index \notin 1 .. Len(a.cells) THEN a
             ELSE [cells |-> [a.cells EXCEPT ![index] =
                                [char |-> getRandomChar(rChar),
                                 color |-> IF smooth THEN @.color ELSE target,
                                 targetColor |-> target,
                                 colorProgress |-> IF smooth THEN FlZero ELSE FlOne]],
                   trans |-> [a.trans EXCEPT ![index] = IF smooth THEN 0 ELSE -1],
                   draws |-> Append(a.draws, index)] :
           a \in {acc}} : TRUE

RECURSIVE updateLoop(_, _, _, _, _, _)
updateLoop(acc, smooth, colors, rnd, i, updateCount) ==
  IF i > updateCount THEN acc
  ELSE updateLoop(updateOne(acc, smooth, colors,
                            rnd[3 * i - 2], rnd[3 * i - 1], rnd[3 * i]),
                  smooth, colors, rnd, i + 1, updateCount)

updateNucleotides(st, smooth, colors, rnd) ==
  CHOOSE r \in
    {IF Len(s.nucleotides) = 0
     THEN Logged([s EXCEPT !.tick.before = s.nucleotides,
                           !.tick.after = s.nucleotides], "updateNucleotides")
     ELSE CHOOSE u \in
            {Logged([s EXCEPT !.nucleotides = l.cells,
                              !.transSteps = l.trans,
                              !.tick.draws = l.draws,
                              !.tick.before = s.nucleotides,
                              !.tick.after = l.cells], "updateNucleotides") :
               l \in {updateLoop([cells |-> s.nucleotides, trans |-> s.transSteps,
                                  draws |-> <<>>],
                                 smooth, colors, rnd, 1,
                                 updateCountOf(Len(s.nucleotides)))}} : TRUE :
       s \in {st}} : TRUE

\* colorProgress += 0.05, starting again from 0 where the code clamps to 1
advanceProgressWraps(progress) ==
  LET p == FlRound(FlAdd(progress, ColorStep))
  IN  IF FlLt(FlOne, p) THEN FlZero ELSE p

\* colorProgress += 0.05, without the clamp to 1
advanceProgressUnclamped(progress) == FlRound(FlAdd(progress, ColorStep))

\* colorProgress += 0.05; if (colorProgress > 1) colorProgress = 1
advanceProgress(progress) ==
  LET p == FlRound(FlAdd(progress, ColorStep))
  IN  IF FlLt(FlOne, p) THEN FlOne ELSE p

\* the body of the forEach of handleSmoothTransitions, for one cell
transitionCell(nucleotide) ==
  IF FlLt(nucleotide.colorProgress, FlOne)
  THEN LET progress == advanceProgress(nucleotide.colorProgress)
           startRgb == hexToRgb(nucleotide.color)
           endRgb == hexToRgb(nucleotide.targetColor)
       IN  IF startRgb # Null /\ endRgb # Null
           THEN [nucleotide EXCEPT
                   !.colorProgress = progress,
                   !.color = interpolateColor(startRgb, endRgb, progress)]
           ELSE [nucleotide EXCEPT !.colorProgress = progress]
  ELSE nucleotide

\* whether the forEach body sets needsRedraw for this cell
cellNeedsRedraw(nucleotide) ==
  /\ FlLt(nucleotide.colorProgress, FlOne)
  /\ hexToRgb(nucleotide.color) # Null
  /\ hexToRgb(nucleotide.targetColor) # Null

handleSmoothTransitions(st) ==
  CHOOSE r \in
    {IF s.threw THEN s
     ELSE CHOOSE u \in
            {IF \E i \in 1 .. Len(s.nucleotides) : cellNeedsRedraw(s.nucleotides[i])
             THEN drawNucleotides(s1) ELSE s1 :
               s1 \in
                 {Logged(
                    [s EXCEPT
                       !.nucleotides = cells,
                       !.tick.trans = TRUE,
                       !.tick.found = s.nucleotides,
                       !.tick.left = cells,
                       !.transSteps =
                          [i \in 1 .. Len(s.nucleotides) |->
                             IF FlLt(s.nucleotides[i].colorProgress, FlOne)
                                /\ s.transSteps[i] >= 0
                             THEN s.transSteps[i] + 1 ELSE s.transSteps[i]]],
                    "handleSmoothTransitions") :
                      cells \in {[i \in 1 .. Len(s.nucleotides) |->
                                    transitionCell(s.nucleotides[i])]}}} : TRUE :
       s \in {st}} : TRUE

\* the smallest handle that names no pending callback
FreshHandle(st) ==
  CHOOSE h \in 1 .. Cardinality(st.frames) + 2 :
    /\ h # st.animationRef
    /\ \A f \in st.frames : f.id # h

\* requestAnimationFrame returning a handle without keeping the callback
requestAnimationFrameDropped(st, run) ==
  CHOOSE r \in
    {Logged([s EXCEPT !.animationRef = FreshHandle(s)], "requestAnimationFrame") :
       s \in {st}} : TRUE

requestAnimationFrame(st, run) ==
  CHOOSE r \in
    {Logged([s EXCEPT !.frames = @ \cup {[id |-> FreshHandle(s), run |-> run]},
                      !.animationRef = FreshHandle(s)], "requestAnimationFrame") :
       s \in {st}} : TRUE

cancelAnimationFrame(st, id) ==
  Logged([st EXCEPT !.frames = {f \in @ : f.id # id}], "cancelAnimationFrame")

\* now - lastGlitchTime.current >= glitchSpeed
gateOpen(elapsed, glitchSpeed) == elapsed >= glitchSpeed

\* how many Math.random() calls animate makes
AnimateRandoms(last, length, c, t) ==
  IF gateOpen(t - last, c.glitchSpeed) THEN UpdateRandoms(length) ELSE 0

\* animate up to the end of its interval gate: the mutator and the renderer
\* if the gate is open
animateGate(st, c, colors, t, rnd) ==
  CHOOSE r \in
    {IF s.threw THEN s
     ELSE IF gateOpen(t - s.lastGlitchTime, c.glitchSpeed)
     THEN CHOOSE v \in
            {IF u.threw THEN u ELSE [u EXCEPT !.lastGlitchTime = t] :
               u \in {drawNucleotides(
                        updateNucleotides(
                          Logged([s EXCEPT !.tick =
                                    [NoTick EXCEPT !.gated = TRUE, !.ran = TRUE,
                                                   !.smooth = c.smooth, !.at = t,
                                                   !.elapsed = t - s.lastGlitchTime,
                                                   !.glitchSpeed = c.glitchSpeed]],
                                 "animate"),
                          c.smooth, colors, rnd))}} : TRUE
     ELSE Logged([s EXCEPT !.tick =
                    [NoTick EXCEPT !.gated = TRUE, !.smooth = c.smooth, !.at = t,
                                   !.elapsed = t - s.lastGlitchTime,
                                   !.glitchSpeed = c.glitchSpeed]],
                 "animate") :
       s \in {st}} : TRUE

\* animate with the transitioner inside the interval gate
animateTransitionsWhenGated(st, run, c, colors, t, rnd) ==
  CHOOSE r \in
    {IF s2.threw THEN s2 ELSE requestAnimationFrame(s2, run) :
       s2 \in {IF c.smooth /\ s1.tick.ran THEN handleSmoothTransitions(s1) ELSE s1 :
                 s1 \in {animateGate(st, c, colors, t, rnd)}}} : TRUE

animate(st, run, c, colors, t, rnd) ==
  CHOOSE r \in
    {IF s2.threw THEN s2 ELSE requestAnimationFrame(s2, run) :
       s2 \in {IF c.smooth THEN handleSmoothTransitions(s1) ELSE s1 :
                 s1 \in {animateGate(st, c, colors, t, rnd)}}} : TRUE

\* the body of the effect, up to the registration of the listener
effectBody(st, run, c, colors, size, t, rndInit, rndUpdate) ==
  CHOOSE r \in
    {IF ~s.canvasRef THEN Logged(s, "effect")
     ELSE animate(resizeCanvas([Logged(s, "effect") EXCEPT !.context = TRUE],
                               colors, size, rndInit),
                  run, c, colors, t, rndUpdate) : s \in {st}} : TRUE

\* resizeTimer without its cancelAnimationFrame
resizeTimerLeavesFrame(st, run, c, colors, size, t, rndInit, rndUpdate) ==
  animate(resizeCanvas(Logged(st, "resizeTimer"), colors, size, rndInit),
          run, c, colors, t, rndUpdate)

\* the callback handleResize hands to setTimeout
resizeTimer(st, run, c, colors, size, t, rndInit, rndUpdate) ==
  CHOOSE r \in
    {animate(resizeCanvas(cancelAnimationFrame(Logged(s, "resizeTimer"),
                                               s.animationRef),
                          colors, size, rndInit),
             run, c, colors, t, rndUpdate) : s \in {st}} : TRUE

\* the function the effect returns, up to the removal of the listener
cleanup(st) ==
  CHOOSE r \in
    {cancelAnimationFrame(Logged(s, "cleanup"), s.animationRef) : s \in {st}} : TRUE

\* handleResize, up to the timer it sets
handleResize(st) ==
  Logged(Logged(Logged(st, "handleResize"), "clearTimeout"), "setTimeout")

(***************************************************************************)
(* The events                                                              *)
(***************************************************************************)
\* the parent's sizes: no area, one cell
Sizes == {<<0, 0>>, <<5, 10>>}

CellCount(size) ==
  LET g == calculateGrid(size[1], size[2]) IN g.columns * g.rows

\* the refs as useRef creates them, with no canvas attached
IdleHeap ==
  [canvasRef |-> FALSE, context |-> FALSE, animationRef |-> 0,
   nucleotides |-> <<>>, grid |-> [columns |-> 0, rows |-> 0],
   lastGlitchTime |-> 0, frames |-> {},
   threw |-> FALSE, log |-> <<>>, tick |-> NoTick, initCells |-> <<>>,
   builtRect |-> <<0, 0>>, transSteps |-> <<>>]

Holds(st) ==
  /\ canvasRef = st.canvasRef
  /\ context = st.context
  /\ animationRef = st.animationRef
  /\ nucleotides = st.nucleotides
  /\ grid = st.grid
  /\ lastGlitchTime = st.lastGlitchTime
  /\ frames = st.frames
  /\ threw = st.threw
  /\ log = st.log
  /\ tick = st.tick
  /\ initCells = st.initCells
  /\ builtRect = st.builtRect
  /\ transSteps = st.transSteps

Commit(result) == \E st \in {result} :
  /\ canvasRef' = st.canvasRef
  /\ context' = st.context
  /\ animationRef' = st.animationRef
  /\ nucleotides' = st.nucleotides
  /\ grid' = st.grid
  /\ lastGlitchTime' = st.lastGlitchTime
  /\ frames' = st.frames
  /\ threw' = st.threw
  /\ log' = st.log
  /\ tick' = st.tick
  /\ initCells' = st.initCells
  /\ builtRect' = st.builtRect
  /\ transSteps' = st.transSteps

heapVars ==
  <<canvasRef, context, animationRef, nucleotides, grid, lastGlitchTime,
    frames, threw, log, tick, initCells, builtRect, transSteps>>

\* the first render: the refs are created, the effect has not run
Idle(p, size) ==
  /\ phase = "idle"
  /\ props = p
  /\ glitchColors = DefaultColors
  /\ rect = size
  /\ now = 0
  /\ closures = <<>>
  /\ resizeTimeout = <<>>
  /\ listener = 0
  /\ lastResize = NoTimer
  /\ Holds(IdleHeap)

Init == \E p \in PropsSet : \E size \in Sizes : Idle(p, size)

\* the canvas is attached and the effect runs for the first time
Mount(rv, uniform) ==
  /\ phase = "idle"
  /\ \E rndInit \in InitSeqs(rv, 3 * CellCount(rect), uniform) :
       \E rndUpdate \in RandSeqs(rv, AnimateRandoms(lastGlitchTime, CellCount(rect),
                                                props, now)) :
         Commit(effectBody([Heap EXCEPT !.canvasRef = TRUE], 1, props,
                           glitchColors, rect, now, rndInit, rndUpdate))
  /\ phase' = "mounted"
  /\ closures' = <<props>>
  /\ resizeTimeout' = <<NoTimer>>
  /\ listener' = 1
  /\ UNCHANGED <<props, glitchColors, rect, now, lastResize>>

\* a render with another glitchSpeed or smooth: the cleanup of the last run
\* of the effect, then the effect again
EffectRerun(p, rv) ==
  /\ phase = "mounted"
  /\ Len(closures) < MaxEffects
  /\ p \in PropsSet
  /\ p # props
  /\ \E rndInit \in RandSeqs(rv, 3 * CellCount(rect)) :
       \E rndUpdate \in RandSeqs(rv, AnimateRandoms(lastGlitchTime, CellCount(rect),
                                                p, now)) :
         Commit(effectBody(cleanup(Heap), Len(closures) + 1, p,
                           glitchColors, rect, now, rndInit, rndUpdate))
  /\ props' = p
  /\ closures' = Append(closures, p)
  /\ resizeTimeout' = Append(resizeTimeout, NoTimer)
  /\ listener' = Len(closures) + 1
  /\ UNCHANGED <<phase, glitchColors, rect, now, lastResize>>

\* the component is removed: the canvas ref is detached, the cleanup runs
Unmount ==
  /\ phase = "mounted"
  /\ Commit(cleanup([Heap EXCEPT !.canvasRef = FALSE]))
  /\ phase' = "unmounted"
  /\ listener' = 0
  /\ UNCHANGED <<props, glitchColors, rect, now, closures, resizeTimeout,
                 lastResize>>

\* the window is resized: handleResize of the registered listener, if any
ResizeEvent(size) ==
  /\ phase # "idle"
  /\ size \in Sizes
  /\ rect' = size
  /\ IF listener # 0
     THEN /\ resizeTimeout' = [resizeTimeout EXCEPT ![listener] = now + ResizeDelay]
          /\ Commit(handleResize(Heap))
          /\ lastResize' = now
     ELSE UNCHANGED <<resizeTimeout, heapVars, lastResize>>
  /\ UNCHANGED <<phase, props, glitchColors, now, closures, listener>>

\* the debounce timer of a run of the effect fires
TimerFire(run, rv) ==
  /\ run \in 1 .. Len(closures)
  /\ resizeTimeout[run] # NoTimer
  /\ now >= resizeTimeout[run]
  /\ LET length == IF canvasRef THEN CellCount(rect) ELSE Len(nucleotides)
     IN  \E rndInit \in RandSeqs(rv, IF canvasRef THEN 3 * length ELSE 0) :
           \E rndUpdate \in RandSeqs(rv, AnimateRandoms(lastGlitchTime, length,
                                                    closures[run], now)) :
             Commit(resizeTimer(Heap, run, closures[run], glitchColors, rect,
                                now, rndInit, rndUpdate))
  /\ resizeTimeout' = [resizeTimeout EXCEPT ![run] = NoTimer]
  /\ UNCHANGED <<phase, props, glitchColors, rect, now, closures, listener,
                 lastResize>>

\* the browser runs a pending animation frame callback
AnimationFrame(f, rv) ==
  /\ f \in frames
  /\ \E rnd \in RandSeqs(rv, AnimateRandoms(lastGlitchTime, Len(nucleotides),
                                        closures[f.run], now)) :
       Commit(animate([Heap EXCEPT !.frames = @ \ {f}], f.run, closures[f.run],
                      glitchColors, now, rnd))
  /\ UNCHANGED <<phase, props, glitchColors, rect, now, closures,
                 resizeTimeout, listener, lastResize>>

\* time passes
AdvanceTime ==
  /\ now + TimeStep <= MaxTime
  /\ now' = now + TimeStep
  /\ UNCHANGED <<phase, props, glitchColors, rect, closures, resizeTimeout,
                 listener, heapVars, lastResize>>

\* the whole life of the component, with a constant random source
Next ==
  \/ Mount(SteadyRandom, FALSE)
  \/ \E p \in PropsSet : EffectRerun(p, SteadyRandom)
  \/ Unmount
  \/ \E size \in Sizes : ResizeEvent(size)
  \/ \E run \in 1 .. MaxEffects : TimerFire(run, SteadyRandom)
  \/ \E f \in frames : AnimationFrame(f, SteadyRandom)
  \/ AdvanceTime

Spec == Init /\ [][Next]_vars

\* The browser goes on running the frame callbacks it has pending: weak
\* fairness of the frame callbacks, WF_vars(\E f \in frames : AnimationFrame(f, _)),
\* written out.  A frame callback is enabled exactly when one is pending, and
\* it always changes the state: it leaves the pending set.
FrameFairness ==
  \/ []<>(frames = {})
  \/ []<><<\E f \in frames : AnimationFrame(f, SteadyRandom)>>_vars

\* the runs of the effect of a component that re-renders once
LiveRuns == {1, 2}

\* the life of a component whose effect re-runs at most once
NextLive ==
  \/ Mount(SteadyRandom, FALSE)
  \/ \E p \in PropsSet : Len(closures) = 1 /\ EffectRerun(p, SteadyRandom)
  \/ Unmount
  \/ \E size \in Sizes : ResizeEvent(size)
  \/ \E run \in LiveRuns : TimerFire(run, SteadyRandom)
  \/ \E f \in frames : AnimationFrame(f, SteadyRandom)
  \/ AdvanceTime

SpecLive == Init /\ [][NextLive]_vars /\ FrameFairness

\* the loop of a mounted component of one cell, with a random source of two
\* values
NextCells ==
  \/ Mount(RandomValues, FALSE)
  \/ \E f \in frames : AnimationFrame(f, RandomValues)
  \/ AdvanceTime

InitCells == \E p \in PropsSet : Idle(p, <<5, 10>>)

SpecCells == InitCells /\ [][NextCells]_vars

\* the loop of a mounted component of forty cells, where a mutation tick
\* draws twice
GridProps ==
  {[glitchSpeed |-> 50, smooth |-> FALSE], [glitchSpeed |-> 100, smooth |-> TRUE]}

NextGrid ==
  \/ Mount(RandomValues, TRUE)
  \/ \E f \in frames : AnimationFrame(f, RandomValues)
  \/ AdvanceTime

InitGrid == \E p \in GridProps : Idle(p, <<200, 40>>)

SpecGrid == InitGrid /\ [][NextGrid]_vars

\* a component mounted on a 100 x 100 surface, fifty cells that start out
\* alike, then mutated with a random source of two values, and resized
NextSurface ==
  \/ Mount(SteadyRandom, TRUE)
  \/ \E size \in Sizes : ResizeEvent(size)
  \/ TimerFire(1, RandomValues)
  \/ \E f \in frames : AnimationFrame(f, RandomValues)
  \/ AdvanceTime

InitSurface == \E p \in GridProps : Idle(p, <<100, 100>>)

SpecSurface == InitSurface /\ [][NextSurface]_vars

(***************************************************************************)
(* What the claims read                                                    *)
(***************************************************************************)
\* the last handler called op
Called(op) == \E k \in 1 .. Len(log) : log[k].op = op

\* the last handler was the callback of a debounce timer, and it rebuilt the store
TimerRebuilt ==
  /\ Len(log) > 0
  /\ log[1].op = "resizeTimer"
  /\ Called("initializeNucleotides")

IsDecDigit(c) == \E i \in 1 .. 10 : DecDigits[i] = c

RECURSIVE ReadNumbers(_, _, _, _)
\* the decimal numbers written in s from position i on
ReadNumbers(s, i, current, acc) ==
  IF i > Len(s)
  THEN IF current >= 0 THEN Append(acc, current) ELSE acc
  ELSE IF IsDecDigit(s[i])
       THEN ReadNumbers(s, i + 1,
                        (IF current < 0 THEN 0 ELSE current) * 10 + HexValue(s[i]),
                        acc)
       ELSE ReadNumbers(s, i + 1, -1,
                        IF current >= 0 THEN Append(acc, current) ELSE acc)

\* the colour the canvas paints for a fillStyle text: a hex colour or rgb(r, g, b)
ColorValue(text) ==
  IF hexToRgb(text) # Null THEN hexToRgb(text)
  ELSE LET n == ReadNumbers(text, 1, -1, <<>>)
       IN  IF Len(text) > 4 /\ SubSeq(text, 1, 4) = <<"r", "g", "b", "(">> /\ Len(n) = 3
           THEN [r |-> n[1], g |-> n[2], b |-> n[3]]
           ELSE Null

\* the distinct cells a mutation tick drew
Drawn == {tick.draws[k] : k \in 1 .. Len(tick.draws)}

\* the transitioner of the last handler recomputed the color of cell i
Recomputed(i) == tick.left[i].color # tick.found[i].color

\* the transitioner of the last handler went on to draw
TransitionDrew ==
  \E k \in 1 .. Len(log) : \E m \in 1 .. Len(log) :
    /\ k < m
    /\ log[k].op = "handleSmoothTransitions"
    /\ log[m].op = "drawNucleotides"

\* cell i, as the transitioner found it, was in transition with a color or a
\* targetColor that hexToRgb does not parse
Malformed(i) ==
  /\ FlLt(tick.found[i].colorProgress, FlOne)
  /\ \/ hexToRgb(tick.found[i].color) = Null
     \/ hexToRgb(tick.found[i].targetColor) = Null

(***************************************************************************)
(* C1                                                                      *)
(***************************************************************************)
\* C1: at most one frame callback is pending in every state and after every
\* call a handler makes, and whenever the cell store is rebuilt (by mount, by
\* an effect re-run or by a resize timer) no frame callback is pending: the
\* resize timer has cancelled it before.
C1_AtMostOneLoop ==
  /\ Cardinality(frames) <= 1
  /\ \A k \in 1 .. Len(log) :
       /\ log[k].pending <= 1
       /\ log[k].op = "initializeNucleotides" => log[k].pending = 0
  /\ TimerRebuilt => log[2].op = "cancelAnimationFrame"

\* a resize timer fired with a frame pending, rebuilt the store and left one loop
C1_Witness ==
  /\ TimerRebuilt
  /\ log[1].pending = 1
  /\ log[2].pending = 0
  /\ Cardinality(frames) = 1

(***************************************************************************)
(* C2                                                                      *)
(***************************************************************************)
\* C2: once the component is torn down no frame callback is pending after
\* any later step, no later step runs animate, and no later step changes or
\* rebuilds the cell store.
C2_TeardownStopsEverything ==
  [][phase = "unmounted" =>
       /\ frames' = {}
       /\ nucleotides' = nucleotides
       /\ ~tick'.gated
       /\ ~Called("initializeNucleotides")']_vars

(***************************************************************************)
(* C3                                                                      *)
(***************************************************************************)
\* C3: a cell that a smooth mutation has started on a transition and whose
\* colorProgress is back at 1 shows its targetColor: color and targetColor
\* are the same RGB value.
C3_SettledOnTarget ==
  \A i \in 1 .. Len(nucleotides) :
    transSteps[i] >= 0 /\ nucleotides[i].colorProgress = FlOne
      => ColorValue(nucleotides[i].color) = ColorValue(nucleotides[i].targetColor)

(***************************************************************************)
(* C4                                                                      *)
(***************************************************************************)
\* C4: after a mutation tick of a loop with smooth = false, every cell the
\* tick drew has color = targetColor and colorProgress = 1, both as
\* updateNucleotides leaves the store and at the end of the frame callback.
C4_SnapWhenNotSmooth ==
  tick.ran /\ ~tick.smooth =>
    /\ nucleotides = tick.after
    /\ \A i \in Drawn :
         /\ tick.after[i].color = tick.after[i].targetColor
         /\ tick.after[i].colorProgress = FlOne

\* a tick with smooth = false drew a cell and gave it another colour
C4_Witness ==
  /\ tick.ran
  /\ ~tick.smooth
  /\ \E i \in Drawn : tick.after[i].color # tick.before[i].color

(***************************************************************************)
(* C5                                                                      *)
(***************************************************************************)
\* C5: a mutation tick with smooth = true leaves every cell it drew with
\* colorProgress = 0 and the color it had; and a cell so mutated has had at
\* most 20 transitioner steps since, its colorProgress is below 1 exactly
\* while it has had fewer than 20, and is 1 once it has had 20.
C5_TwentySteps ==
  /\ tick.ran /\ tick.smooth =>
       \A i \in Drawn :
         /\ tick.after[i].colorProgress = FlZero
         /\ tick.after[i].color = tick.before[i].color
  /\ \A i \in 1 .. Len(nucleotides) :
       transSteps[i] >= 0 =>
         /\ transSteps[i] <= 20
         /\ FlLt(nucleotides[i].colorProgress, FlOne) <=> transSteps[i] < 20
         /\ transSteps[i] = 20 => nucleotides[i].colorProgress = FlOne
         /\ transSteps[i] = 0 => nucleotides[i].colorProgress = FlZero

\* a smoothly mutated cell has had its 20 steps
C5_Witness ==
  \E i \in 1 .. Len(nucleotides) :
    transSteps[i] = 20 /\ nucleotides[i].colorProgress = FlOne

(***************************************************************************)
(* C6                                                                      *)
(***************************************************************************)
\* C6: an animation callback runs the mutator exactly when the time since
\* the last mutation is at least the component's glitchSpeed, and then the
\* last-mutation time is the time of the callback.
C6_MinimumInterval ==
  tick.gated =>
    /\ tick.ran <=> tick.elapsed >= props.glitchSpeed
    /\ tick.ran => lastGlitchTime = tick.at

(***************************************************************************)
(* C7                                                                      *)
(***************************************************************************)
\* the store has columns * rows cells, columns = ceil(W / 10) and
\* rows = ceil(H / 20) for the rect of the most recent rebuild
C7_Shape ==
  /\ Len(nucleotides) = grid.columns * grid.rows
  /\ grid.columns * 10 >= builtRect[1] /\ (grid.columns - 1) * 10 < builtRect[1]
  /\ grid.rows * 20 >= builtRect[2] /\ (grid.rows - 1) * 20 < builtRect[2]

\* C7: the shape above holds in every state, and a step that changes the
\* length of the store or the grid is one whose handler called
\* initializeNucleotides.
C7_StoreMatchesGrid ==
  /\ C7_Shape
  /\ [][/\ C7_Shape'
        /\ (Len(nucleotides') # Len(nucleotides) \/ grid' # grid)
             => Called("initializeNucleotides")']_vars

\* a mutation tick ran on a store of one cell built for a 5 x 10 rect
C7_Witness ==
  /\ builtRect = <<5, 10>>
  /\ Len(nucleotides) = 1
  /\ tick.ran
  /\ Len(tick.draws) = 1
  /\ ~Called("initializeNucleotides")

(***************************************************************************)
(* C8                                                                      *)
(***************************************************************************)
\* C8: when a resize timer rebuilds the store, the debounce delay has passed
\* since the last resize event, and the timer's callback has, in this order,
\* cancelled the frame callback, reinitialized the store and restarted the
\* loop.
C8_Debounced ==
  TimerRebuilt =>
    /\ now - lastResize >= ResizeDelay
    /\ log[2].op = "cancelAnimationFrame"
    /\ log[3].op = "initializeNucleotides"
    /\ \E k \in 4 .. Len(log) : log[k].op = "animate"

(***************************************************************************)
(* C9                                                                      *)
(***************************************************************************)
\* C9: as initializeNucleotides leaves it, every cell of the store has
\* colorProgress = 1 and color = targetColor.
C9_InitSettled ==
  \A i \in 1 .. Len(initCells) :
    /\ initCells[i].colorProgress = FlOne
    /\ initCells[i].color = initCells[i].targetColor

(***************************************************************************)
(* C10                                                                     *)
(***************************************************************************)
\* C10: a mutation tick on a store of N >= 1 cells makes max(1, floor(N / 20))
\* draws, so it draws between one and that many distinct cells, and it
\* leaves the store its length and every cell it did not draw as it was.
C10_TickTouchesOnlyDrawn ==
  tick.ran /\ Len(tick.before) >= 1 =>
    /\ Len(tick.draws) = Max(1, Len(tick.before) \div 20)
    /\ Cardinality(Drawn) >= 1
    /\ Cardinality(Drawn) <= Max(1, Len(tick.before) \div 20)
    /\ Len(tick.after) = Len(tick.before)
    /\ \A i \in 1 .. Len(tick.before) :
         i \notin Drawn => tick.after[i] = tick.before[i]

\* a tick on forty cells drew two different cells and changed both
C10_Witness ==
  /\ tick.ran
  /\ Len(tick.before) = 40
  /\ Len(tick.draws) = 2
  /\ tick.draws[1] # tick.draws[2]
  /\ \A i \in Drawn : tick.after[i] # tick.before[i]

(***************************************************************************)
(* C11                                                                     *)
(***************************************************************************)
\* every cell's colorProgress is a number from 0 to 1
C11_Range ==
  \A i \in 1 .. Len(nucleotides) :
    /\ ~FlLt(nucleotides[i].colorProgress, FlZero)
    /\ ~FlLt(FlOne, nucleotides[i].colorProgress)

\* C11: every cell's colorProgress is from 0 to 1 in every state, and a step
\* lowers the colorProgress of a cell only if its handler rebuilt the store
\* or its mutation tick drew that cell, and the tick put it at 0 or at 1.
C11_ProgressMonotone ==
  /\ C11_Range
  /\ [][/\ C11_Range'
        /\ ~Called("initializeNucleotides")' =>
             /\ Len(nucleotides') = Len(nucleotides)
             /\ \A i \in 1 .. Len(nucleotides) :
                  FlLt(nucleotides'[i].colorProgress, nucleotides[i].colorProgress)
                    => /\ tick'.ran
                       /\ i \in Drawn'
                       /\ tick'.after[i].colorProgress \in {FlZero, FlOne}]_vars

\* among forty cells one is part of the way through a transition, after a
\* frame callback whose gate was closed and that advanced it
C11_Witness ==
  /\ Len(nucleotides) = 40
  /\ tick.trans
  /\ ~tick.ran
  /\ \E i \in 1 .. Len(nucleotides) :
       /\ transSteps[i] >= 2
       /\ FlLt(tick.found[i].colorProgress, nucleotides[i].colorProgress)
       /\ FlLt(nucleotides[i].colorProgress, FlOne)
       /\ \E j \in 1 .. Len(nucleotides) : nucleotides[j].colorProgress = FlOne

(***************************************************************************)
(* C12                                                                     *)
(***************************************************************************)
\* C12: a transitioner step leaves a cell in transition whose color or
\* targetColor does not parse exactly as it found it, color and colorProgress;
\* it draws only if it recomputed the color of some other cell; and it still
\* advances every other cell in transition.
C12_MalformedSkipped ==
  tick.trans =>
    \A i \in 1 .. Len(tick.found) :
      Malformed(i) =>
        /\ tick.left[i].color = tick.found[i].color
        /\ tick.left[i].colorProgress = tick.found[i].colorProgress
        /\ TransitionDrew =>
             \E j \in 1 .. Len(tick.found) : j # i /\ Recomputed(j)
        /\ \A j \in 1 .. Len(tick.found) :
             j # i /\ FlLt(tick.found[j].colorProgress, FlOne)
               => FlLt(tick.found[j].colorProgress, tick.left[j].colorProgress)

(***************************************************************************)
(* C13                                                                     *)
(***************************************************************************)
\* C13: an animation callback calls handleSmoothTransitions exactly when its
\* loop has smooth = true, whether or not its gate let the mutator run, and
\* after updateNucleotides when it ran; and the transitioner goes on to draw
\* exactly when it recomputed the color of some cell.
C13_TransitionerEveryCallback ==
  tick.gated =>
    /\ Called("handleSmoothTransitions") <=> tick.smooth
    /\ tick.trans <=> Called("handleSmoothTransitions")
    /\ \A k \in 1 .. Len(log) : \A m \in 1 .. Len(log) :
         /\ log[k].op = "updateNucleotides"
         /\ log[m].op = "handleSmoothTransitions"
         => k < m
    /\ tick.trans =>
         (TransitionDrew <=> \E i \in 1 .. Len(tick.found) : Recomputed(i))

\* a callback whose gate was closed ran the transitioner, which advanced a
\* cell without recomputing its color and did not draw
C13_Witness ==
  /\ tick.gated
  /\ ~tick.ran
  /\ tick.smooth
  /\ Called("handleSmoothTransitions")
  /\ ~TransitionDrew
  /\ \E i \in 1 .. Len(tick.found) :
       FlLt(tick.found[i].colorProgress, tick.left[i].colorProgress)

(***************************************************************************)
(* C14                                                                     *)
(***************************************************************************)
\* the last handler ran animate, built no store, and left the store empty:
\* its animate ran on an empty store
C14_EmptyCallback ==
  /\ tick.gated
  /\ ~Called("initializeNucleotides")
  /\ nucleotides = <<>>

\* C14: a store built for a rect with no width or no height is empty; and a
\* handler whose animate runs on an empty store finds the store empty in its
\* mutator and its transitioner and leaves it empty, draws nothing, throws
\* nothing, and ends by requesting the next frame, which is then the one
\* pending callback; no step of such a handler gives the store a cell.
C14_EmptyStoreSilent ==
  /\ [](/\ Called("initializeNucleotides") /\ (builtRect[1] = 0 \/ builtRect[2] = 0)
           => initCells = <<>> /\ nucleotides = <<>>
        /\ C14_EmptyCallback =>
             /\ ~threw
             /\ ~Called("drawNucleotides")
             /\ tick.before = <<>> /\ tick.after = <<>> /\ tick.draws = <<>>
             /\ tick.found = <<>> /\ tick.left = <<>>
             /\ log[Len(log)].op = "requestAnimationFrame"
             /\ Cardinality(frames) = 1)
  /\ [][nucleotides = <<>> /\ ~Called("initializeNucleotides")'
          => nucleotides' = <<>> /\ ~threw' /\ ~Called("drawNucleotides")']_vars

\* on a surface with no area a frame callback ran the mutator and the
\* transitioner on the empty store and requested the next frame
C14_Witness ==
  /\ C14_EmptyCallback
  /\ builtRect = <<0, 0>>
  /\ phase = "mounted"
  /\ log[1].op = "animate"
  /\ Called("updateNucleotides")
  /\ Called("handleSmoothTransitions")
  /\ Cardinality(frames) = 1

(***************************************************************************)
(* C15                                                                     *)
(***************************************************************************)
\* C15: every cell of the store has one of A, T, C, G as its char and one of
\* the glitchColors as its targetColor; and a store built for a 100 x 100
\* rect has a grid of 10 columns and 5 rows and 50 cells.
C15_AlphabetAndPalette ==
  /\ \A i \in 1 .. Len(nucleotides) :
       /\ nucleotides[i].char \in {"A", "T", "C", "G"}
       /\ \E k \in 1 .. Len(glitchColors) :
            nucleotides[i].targetColor = glitchColors[k]
  /\ Called("initializeNucleotides") /\ builtRect = <<100, 100>> =>
       /\ grid = [columns |-> 10, rows |-> 5]
       /\ Len(initCells) = 50
       /\ \A i \in 1 .. 50 : initCells[i].char \in {"A", "T", "C", "G"}

\* a mutation tick on the fifty cells of a 100 x 100 surface gave a cell
\* another char and another targetColor
C15_Witness ==
  /\ builtRect = <<100, 100>>
  /\ Len(nucleotides) = 50
  /\ tick.ran
  /\ \E i \in Drawn :
       /\ tick.after[i].char # tick.before[i].char
       /\ tick.after[i].targetColor # tick.before[i].targetColor

(***************************************************************************)
(* C16                                                                     *)
(***************************************************************************)
\* the colours of the palette are hex colours
C16_HexPalette ==
  \A k \in 1 .. Len(glitchColors) : hexToRgb(glitchColors[k]) # Null

\* C16: in a loop with smooth = true and a palette of hex colours, a step
\* that does not rebuild the store changes the color of a cell only from a
\* text hexToRgb parses to a text it does not parse, so the color of a cell
\* changes at most once between two rebuilds; and a transitioner step on a
\* cell in transition whose color does not parse leaves the color and still
\* advances colorProgress.
C16_ColorChangesOnce ==
  /\ [][props.smooth /\ C16_HexPalette /\ ~Called("initializeNucleotides")' =>
          \A i \in 1 .. Len(nucleotides) :
            nucleotides'[i].color # nucleotides[i].color =>
              /\ hexToRgb(nucleotides[i].color) # Null
              /\ hexToRgb(nucleotides'[i].color) = Null
              /\ tick'.trans /\ Recomputed(i)']_vars
  /\ [](props.smooth /\ C16_HexPalette /\ tick.trans =>
          \A i \in 1 .. Len(tick.found) :
            Malformed(i) =>
              /\ tick.left[i].color = tick.found[i].color
              /\ FlLt(tick.found[i].colorProgress, tick.left[i].colorProgress))

\* a frame callback whose gate was closed advanced a cell in transition and
\* left it the rgb() text that an earlier step gave it
C16_Witness ==
  /\ props.smooth
  /\ tick.trans
  /\ ~tick.ran
  /\ \E i \in 1 .. Len(nucleotides) :
       /\ Malformed(i)
       /\ transSteps[i] >= 2
       /\ nucleotides[i].color = tick.found[i].color

(***************************************************************************)
(* C17                                                                     *)
(***************************************************************************)
\* C17: while the component is mounted every pending frame callback belongs
\* to the latest run of the effect and every animate that runs uses the
\* glitchSpeed and smooth of the latest render, and at most one debounce
\* timer is pending.
C17_NewestValues ==
  /\ phase = "mounted" =>
       /\ \A f \in frames : f.run = Len(closures) /\ closures[f.run] = props
       /\ tick.gated =>
            tick.glitchSpeed = props.glitchSpeed /\ tick.smooth = props.smooth
  /\ Cardinality({run \in 1 .. Len(resizeTimeout) :
                    resizeTimeout[run] # NoTimer}) <= 1

(***************************************************************************)
(* C18                                                                     *)
(***************************************************************************)
\* the gate of every pending frame callback is open: the time since the last
\* mutation is at least the glitchSpeed of its loop
C18_TickDue ==
  /\ frames # {}
  /\ \A f \in frames : gateOpen(now - lastGlitchTime, closures[f.run].glitchSpeed)

\* C18: while the component is mounted exactly one frame callback is
\* pending in every state; and if the browser goes on running pending frame
\* callbacks, then as long as the component stays mounted frame callbacks
\* run again and again, and whenever a mutation tick is due one runs (the
\* gate is no longer open) unless the component is torn down first.
C18_LoopNeverStalls ==
  /\ [](phase = "mounted" => Cardinality(frames) = 1)
  /\ []<>(phase # "mounted" \/ (Len(log) > 0 /\ log[1].op = "animate"))
  /\ (phase = "mounted" /\ C18_TickDue) ~> (phase # "mounted" \/ ~C18_TickDue)

\* a mounted component whose pending frame callback was requested by a frame
\* callback that ran a mutation tick some time after the mount
C18_Witness ==
  /\ phase = "mounted"
  /\ Cardinality(frames) = 1
  /\ Len(log) > 0
  /\ log[1].op = "animate"
  /\ tick.ran
  /\ tick.at > 0
  /\ lastGlitchTime = tick.at
  /\ ~C18_TickDue

=============================================================================
